---- MODULE Spec2Model ----
(***************************************************************************)
(* Model of the assistant backend: the command pipeline of                 *)
(* EnhancedAIHandler.process_command, the ActionExecutor registry and the  *)
(* UserMemory profile store.                                               *)
(*                                                                         *)
(* Text is a sequence of one-character strings, so that substring tests,   *)
(* regular-expression searches, lower() and capitalize() are computed the  *)
(* way the Python code computes them.                                      *)
(***************************************************************************)
EXTENDS Integers, Sequences, FiniteSets, TLC

(* ------------------------------------------------------------------ *)
(* Text primitives (Python str methods and re.search building blocks)  *)
(* ------------------------------------------------------------------ *)

Uppers == <<"A","B","C","D","E","F","G","H","I","J","K","L","M",
            "N","O","P","Q","R","S","T","U","V","W","X","Y","Z">>

Lowers == <<"a","b","c","d","e","f","g","h","i","j","k","l","m",
            "n","o","p","q","r","s","t","u","v","w","x","y","z">>

Digits == {"0","1","2","3","4","5","6","7","8","9"}

Range(s) == {s[i] : i \in 1..Len(s)}

LowerChar(c) ==
  IF \E i \in 1..26 : Uppers[i] = c
  THEN Lowers[CHOOSE i \in 1..26 : Uppers[i] = c]
  ELSE c

UpperChar(c) ==
  IF \E i \in 1..26 : Lowers[i] = c
  THEN Uppers[CHOOSE i \in 1..26 : Lowers[i] = c]
  ELSE c

\* str.lower()
Lower(s) == [i \in 1..Len(s) |-> LowerChar(s[i])]

\* str.capitalize(): first character upper-cased, the rest lower-cased
Capitalize(s) ==
  [i \in 1..Len(s) |-> IF i = 1 THEN UpperChar(s[i]) ELSE LowerChar(s[i])]

\* the class \w
IsWord(c) == c \in Range(Uppers) \cup Range(Lowers) \cup Digits \cup {"_"}

\* the class \s, as far as the alphabet of the model goes
IsSpace(c) == c \in {" ", "\n"}

\* the literal lit occurs in t at position i
StartsAt(t, lit, i) ==
  /\ i >= 1
  /\ i + Len(lit) - 1 <= Len(t)
  /\ SubSeq(t, i, i + Len(lit) - 1) = lit

\* the Python test  sub in t
Contains(t, sub) == \E i \in 1..(Len(t) + 1) : StartsAt(t, sub, i)

\* str.strip()
Strip(s) ==
  LET idx == {i \in 1..Len(s) : ~IsSpace(s[i])}
  IN  IF idx = {} THEN <<>>
      ELSE SubSeq(s, CHOOSE i \in idx : \A j \in idx : i <= j,
                     CHOOSE i \in idx : \A j \in idx : i >= j)

Min(S) == CHOOSE x \in S : \A y \in S : x <= y

\* length of the longest run of \w characters of t that starts at p
WordRun(t, p) ==
  LET stops == {j \in p..(Len(t) + 1) : j = Len(t) + 1 \/ ~IsWord(t[j])}
  IN  Min(stops) - p

\* An optional text: Python's None or a str
None == [some |-> FALSE, v |-> <<>>]

Some(s) == [some |-> TRUE, v |-> s]

\* re.search(lit + r"(\w+)", t): group 1 of the leftmost match
SearchLitWord(t, lit) ==
  LET hits == {i \in 1..Len(t) : StartsAt(t, lit, i) /\ WordRun(t, i + Len(lit)) >= 1}
  IN  IF hits = {} THEN None
      ELSE LET p == Min(hits) + Len(lit)
           IN  Some(SubSeq(t, p, p + WordRun(t, p) - 1))

\* re.search(lit + r"(\w+)" + tail, t), tail starting with a non-word character
SearchLitWordLit(t, lit, tail) ==
  LET ok(i) == /\ StartsAt(t, lit, i)
               /\ WordRun(t, i + Len(lit)) >= 1
               /\ StartsAt(t, tail, i + Len(lit) + WordRun(t, i + Len(lit)))
      hits == {i \in 1..Len(t) : ok(i)}
  IN  IF hits = {} THEN None
      ELSE LET p == Min(hits) + Len(lit)
           IN  Some(SubSeq(t, p, p + WordRun(t, p) - 1))

\* (.+?)(?:\.|$) tried at position p: at least one character, then lazily
\* up to the first "." or the end of the text (command texts hold no newline)
LazyToDotOrEnd(t, p) ==
  IF p > Len(t) THEN None
  ELSE LET ends == {j \in (p + 1)..(Len(t) + 1) : j = Len(t) + 1 \/ t[j] = "."}
       IN  Some(SubSeq(t, p, Min(ends) - 1))

\* re.search(lit + r"(.+?)(?:\.|$)", t)
SearchLitLazy(t, lit) ==
  LET hits == {i \in 1..Len(t) : StartsAt(t, lit, i) /\ LazyToDotOrEnd(t, i + Len(lit)).some}
  IN  IF hits = {} THEN None
      ELSE LazyToDotOrEnd(t, Min(hits) + Len(lit))

\* lit + r"(?:a |an )?(.+?)(?:\.|$)" tried with lit at position i
ArticleLazyAt(t, lit, i) ==
  LET p == i + Len(lit)
  IN  IF ~StartsAt(t, lit, i) THEN None
      ELSE IF StartsAt(t, <<"a", " ">>, p) /\ LazyToDotOrEnd(t, p + 2).some
           THEN LazyToDotOrEnd(t, p + 2)
      ELSE IF StartsAt(t, <<"a", "n", " ">>, p) /\ LazyToDotOrEnd(t, p + 3).some
           THEN LazyToDotOrEnd(t, p + 3)
      ELSE LazyToDotOrEnd(t, p)

\* re.search(lit + r"(?:a |an )?(.+?)(?:\.|$)", t)
SearchLitArticleLazy(t, lit) ==
  LET hits == {i \in 1..Len(t) : ArticleLazyAt(t, lit, i).some}
  IN  IF hits = {} THEN None ELSE ArticleLazyAt(t, lit, Min(hits))

\* lit + r"(.+?)" + tail tried with lit at position i
LazyBetweenAt(t, lit, tail, i) ==
  LET p    == i + Len(lit)
      ends == {e \in (p + 1)..(Len(t) + 1) : StartsAt(t, tail, e)}
  IN  IF ~StartsAt(t, lit, i) \/ ends = {} THEN None
      ELSE Some(SubSeq(t, p, Min(ends) - 1))

\* re.search(lit + r"(.+?)" + tail, t)
SearchLitLazyLit(t, lit, tail) ==
  LET hits == {i \in 1..Len(t) : LazyBetweenAt(t, lit, tail, i).some}
  IN  IF hits = {} THEN None ELSE LazyBetweenAt(t, lit, tail, Min(hits))

(* ------------------------------------------------------------------ *)
(* Profile store: user_memory.py                                       *)
(* ------------------------------------------------------------------ *)

\* literals of the trigger lists (P_) and of the regular expressions (R_)
P_my_name_is == <<"m", "y", " ", "n", "a", "m", "e", " ", "i", "s">>

P_mera_naam == <<"m", "e", "r", "a", " ", "n", "a", "a", "m">>

P_i_am == <<"i", " ", "a", "m">>

P_main_hoon == <<"m", "a", "i", "n", " ", "h", "o", "o", "n">>

P_i_work_as == <<"i", " ", "w", "o", "r", "k", " ", "a", "s">>

P_i_am_a == <<"i", " ", "a", "m", " ", "a">>

P_main == <<"m", "a", "i", "n">>

P_kaam_karta == <<"k", "a", "a", "m", " ", "k", "a", "r", "t", "a">>

P_kaam_karti == <<"k", "a", "a", "m", " ", "k", "a", "r", "t", "i">>

P_i_like == <<"i", " ", "l", "i", "k", "e">>

P_i_love == <<"i", " ", "l", "o", "v", "e">>

P_mujhe_pasand == <<"m", "u", "j", "h", "e", " ", "p", "a", "s", "a", "n", "d">>

P_interested_in == <<"i", "n", "t", "e", "r", "e", "s", "t", "e", "d", " ", "i", "n">>

P_my_name == <<"m", "y", " ", "n", "a", "m", "e">>

P_i_work == <<"i", " ", "w", "o", "r", "k">>

R_my_name_is == <<"m", "y", " ", "n", "a", "m", "e", " ", "i", "s", " ">>

R_i_am == <<"i", " ", "a", "m", " ">>

R_mera_naam == <<"m", "e", "r", "a", " ", "n", "a", "a", "m", " ">>

R_main == <<"m", "a", "i", "n", " ">>

R_hoon == <<" ", "h", "o", "o", "n">>

R_call_me == <<"c", "a", "l", "l", " ", "m", "e", " ">>

R_i_work_as == <<"i", " ", "w", "o", "r", "k", " ", "a", "s", " ">>

R_kaam_karta_hoon == <<"k", "a", "a", "m", " ", "k", "a", "r", "t", "a", " ", "h", "o", "o", "n", " ">>

R_kaam_karti_hoon == <<"k", "a", "a", "m", " ", "k", "a", "r", "t", "i", " ", "h", "o", "o", "n", " ">>

R_i_like == <<"i", " ", "l", "i", "k", "e", " ">>

R_i_love == <<"i", " ", "l", "o", "v", "e", " ">>

R_mujhe == <<"m", "u", "j", "h", "e", " ">>

R_pasand == <<" ", "p", "a", "s", "a", "n", "d">>

R_interested_in == <<"i", "n", "t", "e", "r", "e", "s", "t", "e", "d", " ", "i", "n", " ">>

W_student == <<"s", "t", "u", "d", "e", "n", "t">>

W_working == <<"w", "o", "r", "k", "i", "n", "g">>

\* absent value of last_updated (the clock is at least 1)
NoTime == 0

\* _create_default_memory; the keys the code never writes after creation
\* (skills, preferences, location, history_summary) are left out
_create_default_memory ==
  [name |-> None, occupation |-> None, interests |-> <<>>,
   facts |-> <<>>, last_updated |-> NoTime]

\* contents of the memory file: absent, not loadable, or a dumped profile
AbsentFile == [kind |-> "absent", data |-> _create_default_memory]

CorruptFile == [kind |-> "corrupt", data |-> _create_default_memory]

JsonFile(m) == [kind |-> "json", data |-> m]

\* _load_memory
_load_memory(dsk) ==
  IF dsk.kind = "json" THEN dsk.data ELSE _create_default_memory

\* outcomes of the write in _save_memory: written, failed before the file
\* was opened (file untouched), failed after open(..., 'w') truncated it
SaveOutcomes == {"ok", "fail_untouched", "fail_truncated"}

\* _save_memory: the file after the call; an exception is printed, not raised
_save_memory(m, dsk, outcome) ==
  CASE outcome = "ok"             -> JsonFile(m)
    [] outcome = "fail_untouched" -> dsk
    [] OTHER                      -> CorruptFile

\* first non-None of a sequence of optional texts
FirstSome(opts) ==
  LET idx == {i \in 1..Len(opts) : opts[i].some}
  IN  IF idx = {} THEN None ELSE opts[Min(idx)]

\* _extract_name with the  i am  pattern tried before the  my name is  pattern
_extract_name_i_am_first(text) ==
  LET t == Lower(text)
      m == FirstSome(<<SearchLitWord(t, R_i_am),
                       SearchLitWord(t, R_my_name_is),
                       SearchLitWord(t, R_mera_naam),
                       SearchLitWordLit(t, R_main, R_hoon),
                       SearchLitWord(t, R_call_me)>>)
  IN  IF m.some THEN Some(Capitalize(m.v)) ELSE None

\* _extract_name
_extract_name(text) ==
  LET t == Lower(text)
      m == FirstSome(<<SearchLitWord(t, R_my_name_is),
                       SearchLitWord(t, R_i_am),
                       SearchLitWord(t, R_mera_naam),
                       SearchLitWordLit(t, R_main, R_hoon),
                       SearchLitWord(t, R_call_me)>>)
  IN  IF m.some THEN Some(Capitalize(m.v)) ELSE None

\* the filter of _extract_occupation applied to one match
OccupationOf(m) ==
  IF m.some /\ Len(Strip(m.v)) > 2 /\ Strip(m.v) \notin {W_student, W_working}
  THEN Some(Strip(m.v)) ELSE None

\* _extract_occupation
_extract_occupation(text) ==
  LET t == Lower(text)
  IN  FirstSome(<<OccupationOf(SearchLitArticleLazy(t, R_i_work_as)),
                  OccupationOf(SearchLitArticleLazy(t, R_i_am)),
                  OccupationOf(SearchLitLazyLit(t, R_main, R_hoon)),
                  OccupationOf(SearchLitLazy(t, R_kaam_karta_hoon)),
                  OccupationOf(SearchLitLazy(t, R_kaam_karti_hoon))>>)

\* _extract_interests: the stripped group of every pattern that matches
_extract_interests(text) ==
  LET t  == Lower(text)
      ms == <<SearchLitLazy(t, R_i_like),
              SearchLitLazy(t, R_i_love),
              SearchLitLazyLit(t, R_mujhe, R_pasand),
              SearchLitLazy(t, R_interested_in)>>
      hit == SelectSeq(ms, LAMBDA m : m.some)
  IN  [i \in 1..Len(hit) |-> Strip(hit[i].v)]

\* _is_personal_info
_is_personal_info(text) ==
  \E k \in {P_my_name, P_i_am, P_i_work, P_i_like, P_i_love, P_mera_naam,
            P_main_hoon, P_mujhe_pasand, P_kaam_karta, P_kaam_karti} :
     Contains(Lower(text), k)

\* the loop without its test  if interest not in list
AppendNewUntested(list, new) == list \o new

\* the loop  for interest in interests: if interest not in list: append
RECURSIVE AppendNew(_, _)
AppendNew(list, new) ==
  IF new = <<>> THEN list
  ELSE AppendNew(IF Head(new) \in Range(list) THEN list ELSE Append(list, Head(new)),
                 Tail(new))

\* ai_response[:100]; the response is kept as a sequence of lines, and the
\* slice keeps its first ContextLen elements
ContextLen == 100

Prefix(s, n) == SubSeq(s, 1, IF Len(s) < n THEN Len(s) ELSE n)

\* self._save_memory() called with the profile of acc as it is now
Saved(acc) == [acc EXCEPT !.saves = Append(@, acc.memory)]

\* The mutations of extract_and_store_info are folded over acc, a record of
\* the profile so far and of the profile as it is at each _save_memory call
\* made so far, in order.

\* the name block:  if any(phrase in lower_msg ...): name = _extract_name(...)
StoreName(acc, user_message) ==
  LET name == _extract_name(user_message)
  IN  IF /\ \E p \in {P_my_name_is, P_mera_naam, P_i_am, P_main_hoon} :
                Contains(Lower(user_message), p)
         /\ name.some
         /\ name.v # <<>>
      THEN Saved([acc EXCEPT !.memory.name = name])
      ELSE acc

\* the occupation block
StoreOccupation(acc, user_message) ==
  LET occ == _extract_occupation(user_message)
  IN  IF /\ \E p \in {P_i_work_as, P_i_am_a, P_main, P_kaam_karta, P_kaam_karti} :
                Contains(Lower(user_message), p)
         /\ occ.some
      THEN Saved([acc EXCEPT !.memory.occupation = occ])
      ELSE acc

\* the interests block
StoreInterests(acc, user_message) ==
  LET ints == _extract_interests(user_message)
  IN  IF /\ \E p \in {P_i_like, P_i_love, P_mujhe_pasand, P_interested_in} :
                Contains(Lower(user_message), p)
         /\ ints # <<>>
      THEN Saved([acc EXCEPT !.memory.interests = AppendNew(@, ints)])
      ELSE acc

\* a facts block without its  self._save_memory()  line
StoreFactUnsaved(acc, user_message, ai_response, now) ==
  IF _is_personal_info(user_message)
  THEN [acc EXCEPT
          !.memory.facts = Append(@, [content |-> user_message, timestamp |-> now,
                                      context |-> Prefix(ai_response, ContextLen)]),
          !.memory.last_updated = now]
  ELSE acc

\* the facts block
StoreFact(acc, user_message, ai_response, now) ==
  IF _is_personal_info(user_message)
  THEN Saved([acc EXCEPT
                !.memory.facts = Append(@, [content |-> user_message, timestamp |-> now,
                                            context |-> Prefix(ai_response, ContextLen)]),
                !.memory.last_updated = now])
  ELSE acc

\* an extract_and_store_info that keeps only the most recent fact
StoreMutationsLatestFact(m0, user_message, ai_response, now) ==
  LET acc == StoreFact(
               StoreInterests(
                 StoreOccupation(
                   StoreName([memory |-> m0, saves |-> <<>>], user_message),
                   user_message),
                 user_message),
               user_message, ai_response, now)
  IN  [memory |-> [acc.memory EXCEPT !.facts = IF @ = <<>> THEN @ ELSE <<@[Len(@)]>>],
       saves |-> acc.saves]

\* the profile after extract_and_store_info, and its saves
StoreMutations(m0, user_message, ai_response, now) ==
  StoreFact(
    StoreInterests(
      StoreOccupation(
        StoreName([memory |-> m0, saves |-> <<>>], user_message),
        user_message),
      user_message),
    user_message, ai_response, now)

\* the file after the _save_memory calls of saves, outs[i] the outcome of the i-th
RECURSIVE SaveChain(_, _, _)
SaveChain(dsk, saves, outs) ==
  IF saves = <<>> THEN dsk
  ELSE SaveChain(_save_memory(Head(saves), dsk, Head(outs)), Tail(saves), Tail(outs))

\* extract_and_store_info: memory and file after the call
extract_and_store_info(m0, d0, user_message, ai_response, now, outs) ==
  LET mut == StoreMutations(m0, user_message, ai_response, now)
  IN  [memory |-> mut.memory, disk |-> SaveChain(d0, mut.saves, outs)]

\* the outcomes of n successive writes
SaveOutcomeSeqs(n) == [1..n -> SaveOutcomes]

\* clear_memory without its  self._save_memory()  line
clear_memory_nosave(dsk, outcome) ==
  [memory |-> _create_default_memory, disk |-> dsk]

\* clear_memory: memory and file after the call
clear_memory(dsk, outcome) ==
  [memory |-> _create_default_memory,
   disk |-> _save_memory(_create_default_memory, dsk, outcome)]

\* a memory file that is valid JSON but not a dict of the documented shape,
\* such as {} : json.load returns it and _load_memory hands it on as it is
OtherShapeJson == [other |-> "{}"]

\* a memory file with a profile that has no interests list, as a file of an
\* earlier layout can be:  {"profile": {"name": null, "occupation": null},
\* "facts": [], "last_updated": null}
NoInterestsJson == [name |-> None, occupation |-> None, facts |-> <<>>, last_updated |-> NoTime]

\* m has every key but the interests list
LacksInterests(m) == DOMAIN m = DOMAIN NoInterestsJson

\* m has the keys the methods of UserMemory index
HasShape(m) == DOMAIN m = DOMAIN _create_default_memory

\* what a method call gives its caller: a value, or an exception
Value(v) == [exc |-> FALSE, e |-> "", v |-> v]

Throws(e) == [exc |-> TRUE, e |-> e, v |-> <<>>]

\* a line of the context text: a fixed label and the texts interpolated
CtxLine(label, texts) == [label |-> label, texts |-> texts]

\* the slice  list[-n:]
LastN(list, n) == SubSeq(list, IF Len(list) > n THEN Len(list) - n + 1 ELSE 1, Len(list))

\* how many facts get_context_for_ai renders
RecentFacts == 5

\* get_context_for_ai: the lines of the context, none for the empty string
get_context_for_ai(m) ==
  IF LacksInterests(m)
  THEN (IF ~m.name.some /\ m.facts = <<>> THEN Value(<<>>) ELSE Throws("KeyError"))
  ELSE IF ~HasShape(m) THEN Throws("KeyError")
  ELSE IF ~m.name.some /\ m.facts = <<>> THEN Value(<<>>)
  ELSE Value(
    <<CtxLine("**User Information (Remember this):**", <<>>)>>
    \o (IF m.name.some THEN <<CtxLine("- Name: ", <<m.name.v>>)>> ELSE <<>>)
    \o (IF m.occupation.some THEN <<CtxLine("- Occupation: ", <<m.occupation.v>>)>> ELSE <<>>)
    \o (IF m.interests # <<>> THEN <<CtxLine("- Interests: ", m.interests)>> ELSE <<>>)
    \o (IF m.facts = <<>> THEN <<>>
        ELSE <<CtxLine("**Previous conversations:**", <<>>)>>
             \o [i \in 1..Len(LastN(m.facts, RecentFacts)) |->
                   CtxLine("- ", <<LastN(m.facts, RecentFacts)[i].content>>)]))

\* get_profile
get_profile(m) ==
  IF ~HasShape(m) THEN Throws("KeyError")
  ELSE Value([name |-> m.name, occupation |-> m.occupation, interests |-> m.interests])

\* get_memory_summary: the fields its lines show
get_memory_summary(m) ==
  IF ~HasShape(m) THEN Throws("KeyError")
  ELSE Value([name |-> m.name, occupation |-> m.occupation, interests |-> m.interests,
              facts_count |-> Len(m.facts), last_updated |-> m.last_updated])

\* extract_and_store_info indexes self.memory only when a block mutates it
StoreRaises(m, user_message) ==
  /\ ~HasShape(m)
  /\ StoreMutations(_create_default_memory, user_message, <<>>, NoTime).saves # <<>>

\* the interests block indexes the interests list of a profile that has none
InterestsRaise(m, user_message) ==
  /\ LacksInterests(m)
  /\ \E p \in {P_i_like, P_i_love, P_mujhe_pasand, P_interested_in} :
        Contains(Lower(user_message), p)
  /\ _extract_interests(user_message) # <<>>

\* the name and occupation blocks, which run before the interests block
StoreUpToInterests(m0, user_message) ==
  StoreOccupation(StoreName([memory |-> m0, saves |-> <<>>], user_message), user_message)

(* ------------------------------------------------------------------ *)
(* Action registry: action_executor.py, browser_automation.py          *)
(* ------------------------------------------------------------------ *)

\* Python's None as a parameter value (a JSON null, or a missing key read
\* with params.get(key))
PyNone == "<None>"

\* file names that are absolute paths
AbsNames == {"/tmp/x.py"}

\* file names a plan may carry
FileNames == {"script.py", "a.py"} \cup AbsNames

TempName == "_temp_exec.py"

\* self.workspace
workspace == "~/AI_Workspace"

\* os.path.join(self.workspace, filename): an absolute name replaces the workspace
os_path_join(filename) ==
  IF filename \in AbsNames THEN [dir |-> "/", name |-> filename]
  ELSE [dir |-> workspace, name |-> filename]

Paths == {os_path_join(f) : f \in FileNames \cup {TempName}}

\* the text  "# New Python File\n"
NewFileText == <<"#", " ", "N", "e", "w", "\n">>

\* an ActionResult dict; exc marks an exception leaving the method instead
ActionResult(success, t, a, output) ==
  [exc |-> FALSE, success |-> success, message |-> [t |-> t, a |-> a], output |-> output]

Raised(e) ==
  [exc |-> TRUE, success |-> FALSE, message |-> [t |-> "", a |-> e], output |-> ""]

\* what the try/except of a registry method returns for an exception e
Caught(t, e) == ActionResult(FALSE, t, e, "")

\* create_file; env: "ok", "raise" when open() raises, "raise_write" when
\* f.write() raises after open(..., 'w') has truncated the file
create_file(fs, br, filename, content, env) ==
  IF filename = PyNone
  THEN [res |-> Caught("Error creating file: ", "TypeError"), files |-> fs, browser |-> br]
  ELSE IF env = "raise"
  THEN [res |-> Caught("Error creating file: ", "OSError"), files |-> fs, browser |-> br]
  ELSE IF env = "raise_write"
  THEN [res |-> Caught("Error creating file: ", "OSError"),
        files |-> [fs EXCEPT ![os_path_join(filename)] = Some(<<>>)], browser |-> br]
  ELSE [res |-> ActionResult(TRUE, "File created: ", filename, ""),
        files |-> [fs EXCEPT ![os_path_join(filename)] = Some(content)], browser |-> br]

\* the file is created with the placeholder text if it doesn't exist
Touch(fs, filename) ==
  IF fs[os_path_join(filename)].some THEN fs
  ELSE [fs EXCEPT ![os_path_join(filename)] = Some(NewFileText)]

\* open_idle; env: "ok", "raise" (the write raises), "raise_spawn" (Popen raises)
open_idle(fs, br, filename, env) ==
  IF filename # PyNone
  THEN IF env = "raise"
       THEN [res |-> Caught("Error opening IDLE: ", "OSError"), files |-> fs, browser |-> br]
       ELSE IF env = "raise_spawn"
       THEN [res |-> Caught("Error opening IDLE: ", "OSError"),
             files |-> Touch(fs, filename), browser |-> br]
       ELSE [res |-> ActionResult(TRUE, "IDLE opened with ", filename, ""),
             files |-> Touch(fs, filename), browser |-> br]
  ELSE IF env \in {"raise", "raise_spawn"}
       THEN [res |-> Caught("Error opening IDLE: ", "OSError"), files |-> fs, browser |-> br]
       ELSE [res |-> ActionResult(TRUE, "IDLE opened", "", ""), files |-> fs, browser |-> br]

\* open_notepad; env: "ok", "raise" (Popen raises)
open_notepad(fs, br, filename, env) ==
  IF env = "raise"
  THEN [res |-> Caught("Error opening Notepad: ", "OSError"), files |-> fs, browser |-> br]
  ELSE IF filename # PyNone
  THEN [res |-> ActionResult(TRUE, "Notepad opened with ", filename, ""),
        files |-> fs, browser |-> br]
  ELSE [res |-> ActionResult(TRUE, "Notepad opened", "", ""), files |-> fs, browser |-> br]

\* open_vscode; env as for open_idle
open_vscode(fs, br, filename, env) ==
  IF filename # PyNone
  THEN IF env = "raise"
       THEN [res |-> Caught("Error opening VS Code: ", "OSError"), files |-> fs, browser |-> br]
       ELSE IF env = "raise_spawn"
       THEN [res |-> Caught("Error opening VS Code: ", "OSError"),
             files |-> Touch(fs, filename), browser |-> br]
       ELSE [res |-> ActionResult(TRUE, "VS Code opened with ", filename, ""),
             files |-> Touch(fs, filename), browser |-> br]
  ELSE IF env \in {"raise", "raise_spawn"}
       THEN [res |-> Caught("Error opening VS Code: ", "OSError"), files |-> fs, browser |-> br]
       ELSE [res |-> ActionResult(TRUE, "VS Code opened workspace: ", workspace, ""),
             files |-> fs, browser |-> br]

\* run_python_code; code is a text or PyNone; env: "ok" (exit 0), "nonzero",
\* "timeout" (subprocess.TimeoutExpired), "raise" (the write or the spawn raises)
run_python_code(fs, br, code, env) ==
  LET tmp == os_path_join(TempName)
  IN  IF code = PyNone
      THEN [res |-> Caught("Error executing code: ", "TypeError"),
            files |-> [fs EXCEPT ![tmp] = Some(<<>>)], browser |-> br]
      ELSE IF env = "raise"
      THEN [res |-> Caught("Error executing code: ", "OSError"), files |-> fs, browser |-> br]
      ELSE LET fs2 == [fs EXCEPT ![tmp] = Some(<<"c">>)]
           IN  CASE env = "timeout" ->
                      [res |-> ActionResult(FALSE, "Code execution timed out (10s limit)", "", ""),
                       files |-> fs2, browser |-> br]
                 [] env = "nonzero" ->
                      [res |-> ActionResult(FALSE, "Code executed with errors", "", "stderr"),
                       files |-> fs2, browser |-> br]
                 [] OTHER ->
                      [res |-> ActionResult(TRUE, "Code executed successfully", "", "stdout"),
                       files |-> fs2, browser |-> br]

\* str(subprocess.TimeoutExpired(cmd, 30))
TimeoutExpiredText == "Command timed out after 30 seconds"

\* execute_command; env as for run_python_code; TimeoutExpired has no handler
\* of its own and is caught by  except Exception
execute_command(fs, br, command, env) ==
  IF command = PyNone
  THEN [res |-> Caught("Error executing command: ", "TypeError"), files |-> fs, browser |-> br]
  ELSE CASE env = "raise" ->
              [res |-> Caught("Error executing command: ", "OSError"), files |-> fs, browser |-> br]
         [] env = "timeout" ->
              [res |-> Caught("Error executing command: ", TimeoutExpiredText),
               files |-> fs, browser |-> br]
         [] env = "nonzero" ->
              [res |-> ActionResult(FALSE, "Command executed", "", "stderr"),
               files |-> fs, browser |-> br]
         [] OTHER ->
              [res |-> ActionResult(TRUE, "Command executed", "", "stdout"),
               files |-> fs, browser |-> br]

\* list_files; env: "ok", "raise" (os.listdir raises)
list_files(fs, br, env) ==
  IF env = "raise"
  THEN [res |-> Caught("Error listing files: ", "OSError"), files |-> fs, browser |-> br]
  ELSE [res |-> ActionResult(TRUE, "Found files", "", ""), files |-> fs, browser |-> br]

\* read_file; the open raises when the name is None, when the file does not
\* exist, or when the environment makes it fail (env = "raise")
read_file(fs, br, filename, env) ==
  IF filename = PyNone
  THEN [res |-> Caught("Error reading file: ", "TypeError"), files |-> fs, browser |-> br]
  ELSE IF env = "raise" \/ ~fs[os_path_join(filename)].some
  THEN [res |-> Caught("Error reading file: ", "OSError"), files |-> fs, browser |-> br]
  ELSE [res |-> ActionResult(TRUE, "File read: ", filename, ""), files |-> fs, browser |-> br]

\* open_browser; env: "ok", "raise" (webbrowser.open raises)
open_browser(fs, br, url, env) ==
  IF url = PyNone \/ env = "raise"
  THEN [res |-> Caught("Error opening browser: ", "Error"), files |-> fs, browser |-> br]
  ELSE [res |-> ActionResult(TRUE, "Browser opened: ", url, ""), files |-> fs, browser |-> br]

\* BrowserAutomation.play_youtube_video on a BrowserAutomation object whose
\* driver field is br.driver.  env: "ok" (the video is clicked), "no_driver"
\* (_init_driver returns False), "import_error" (a selenium import raises
\* after the driver exists), "raise" (the driver or the fallback raises)
play_youtube_video(fs, br, search_query, env) ==
  CASE env = "no_driver" /\ ~br.driver ->
         IF search_query = PyNone
         THEN [res |-> Caught("Error: ", "TypeError"), files |-> fs, browser |-> br]
         ELSE [res |-> ActionResult(TRUE, "YouTube opened with search (Install Selenium): ",
                                    search_query, ""),
               files |-> fs, browser |-> br]
    [] env = "import_error" ->
         IF search_query = PyNone
         THEN [res |-> Raised("TypeError"), files |-> fs, browser |-> [br EXCEPT !.driver = TRUE]]
         ELSE [res |-> ActionResult(TRUE, "YouTube opened with search: ", search_query, ""),
               files |-> fs, browser |-> [br EXCEPT !.driver = TRUE]]
    [] env = "raise" \/ search_query = PyNone ->
         [res |-> Caught("Error: ", "Error"), files |-> fs,
          browser |-> [br EXCEPT !.driver = TRUE]]
    [] OTHER ->
         [res |-> ActionResult(TRUE, "Playing video: ", search_query, ""),
          files |-> fs, browser |-> [br EXCEPT !.driver = TRUE]]

\* open_youtube; env additionally "no_module" (importing browser_automation
\* raises ImportError, so the plain browser is used)
open_youtube(fs, br, search_query, env) ==
  IF env = "no_module" /\ ~br.automation
  THEN IF search_query = PyNone
       THEN [res |-> Caught("Error opening YouTube: ", "TypeError"), files |-> fs, browser |-> br]
       ELSE [res |-> ActionResult(TRUE, "YouTube opened with search: ", search_query, ""),
             files |-> fs, browser |-> br]
  ELSE LET r == play_youtube_video(fs, [br EXCEPT !.automation = TRUE], search_query, env)
       IN  IF r.res.exc
           THEN [r EXCEPT !.res = Caught("Error opening YouTube: ", r.res.message.a)]
           ELSE r

\* google_search; env: "ok", "raise"
google_search(fs, br, query, env) ==
  IF query = PyNone \/ env = "raise"
  THEN [res |-> Caught("Error opening Google: ", "Error"), files |-> fs, browser |-> br]
  ELSE [res |-> ActionResult(TRUE, "Google search opened: ", query, ""),
        files |-> fs, browser |-> br]

\* open_application; env: "ok", "raise"
open_application(fs, br, app_name, env) ==
  IF app_name = PyNone \/ env = "raise"
  THEN [res |-> Caught("Error opening application: ", "Error"), files |-> fs, browser |-> br]
  ELSE [res |-> ActionResult(TRUE, "opened", app_name, ""), files |-> fs, browser |-> br]

\* delete_file without its try/except
delete_file_unguarded(fs, br, filename, env) ==
  IF filename = PyNone
  THEN [res |-> Raised("TypeError"), files |-> fs, browser |-> br]
  ELSE IF env = "raise" \/ ~fs[os_path_join(filename)].some
  THEN [res |-> Raised("OSError"), files |-> fs, browser |-> br]
  ELSE [res |-> ActionResult(TRUE, "File deleted: ", filename, ""),
        files |-> [fs EXCEPT ![os_path_join(filename)] = None], browser |-> br]

\* delete_file; os.remove raises when the name is None, when the file does
\* not exist, or when the environment makes it fail
delete_file(fs, br, filename, env) ==
  IF filename = PyNone
  THEN [res |-> Caught("Error deleting file: ", "TypeError"), files |-> fs, browser |-> br]
  ELSE IF env = "raise" \/ ~fs[os_path_join(filename)].some
  THEN [res |-> Caught("Error deleting file: ", "OSError"), files |-> fs, browser |-> br]
  ELSE [res |-> ActionResult(TRUE, "File deleted: ", filename, ""),
        files |-> [fs EXCEPT ![os_path_join(filename)] = None], browser |-> br]

(* ------------------------------------------------------------------ *)
(* Fenced code blocks: EnhancedAIHandler._extract_code_blocks          *)
(* ------------------------------------------------------------------ *)

\* the backquote character (a string of the model cannot hold it)
BQ == "bq"

\* the fenced-code delimiter: three backquotes
FENCE == <<BQ, BQ, BQ>>

WordText == <<"t", "e", "x", "t">>

\* the pattern  FENCE (\w+)? \n (.*?) FENCE  tried at position i: the opening fence,
\* the longest run of \w, a newline, then lazily up to the next fence
BlockAt(t, i) ==
  LET k == WordRun(t, i + 3)
      p == i + 3 + k + 1
      closes == {j \in p..Len(t) : StartsAt(t, FENCE, j)}
  IN  IF /\ StartsAt(t, FENCE, i)
         /\ i + 3 + k <= Len(t)
         /\ t[i + 3 + k] = "\n"
         /\ closes # {}
      THEN [some |-> TRUE,
            language |-> IF k = 0 THEN WordText ELSE SubSeq(t, i + 3, i + 2 + k),
            code |-> Strip(SubSeq(t, p, Min(closes) - 1)),
            next |-> Min(closes) + 3]
      ELSE [some |-> FALSE, language |-> <<>>, code |-> <<>>, next |-> 0]

\* re.findall from position from on: the non-overlapping matches, left to right
RECURSIVE CodeBlocksFrom(_, _)
CodeBlocksFrom(t, from) ==
  LET hits == {i \in from..Len(t) : BlockAt(t, i).some}
  IN  IF hits = {} THEN <<>>
      ELSE LET b == BlockAt(t, Min(hits))
           IN  <<[language |-> b.language, code |-> b.code]>> \o CodeBlocksFrom(t, b.next)

_extract_code_blocks(text) == CodeBlocksFrom(text, 1)

\* the body a create_file step gets from the reply of the generation call
GeneratedContent(code_text) ==
  LET code_blocks == _extract_code_blocks(code_text)
  IN  IF code_blocks # <<>> THEN code_blocks[1].code ELSE code_text

(* ------------------------------------------------------------------ *)
(* Plans and model replies                                             *)
(* ------------------------------------------------------------------ *)

\* a key that is missing from a JSON object
Absent == "<absent>"

\* dict.get(key, default)
Get(v, default) == IF v = Absent THEN default ELSE v

\* dict.get(key)
GetOrNone(v) == IF v = Absent THEN PyNone ELSE v

\* a step of a plan: its tag, and the parameters the tag reads (filename and
\* content for the file tags, arg for the single parameter of the others);
\* an empty content stands for a content that is missing, null or ""
Step(type, filename, content, arg) ==
  [type |-> type, filename |-> filename, content |-> content, arg |-> arg]

\* the tags the dispatch chain of process_command tests for
ExecutorTags == {"create_file", "open_idle", "open_vscode", "run_code", "execute_command",
                 "open_youtube", "open_browser", "google_search", "open_application"}

\* the tags of the data model  (spec.md, section 3)
SpecTags == ExecutorTags \cup {"list_files", "read_file", "delete_file", "just_respond"}

\* the steps plans are built from: every tag of the data model, a tag
\* outside it, and the parameter shapes that change what a step does
StepSet ==
  {Step("create_file", "a.py", <<"x">>, Absent),
   Step("create_file", "/tmp/x.py", <<"x">>, Absent),
   Step("create_file", Absent, <<>>, Absent),
   Step("open_idle", "a.py", <<>>, Absent),
   Step("open_vscode", Absent, <<>>, Absent),
   Step("run_code", Absent, <<>>, "v"),
   Step("execute_command", Absent, <<>>, "v"),
   Step("open_youtube", Absent, <<>>, "v"),
   Step("open_browser", Absent, <<>>, "v"),
   Step("google_search", Absent, <<>>, Absent),
   Step("open_application", Absent, <<>>, PyNone),
   Step("list_files", Absent, <<>>, Absent),
   Step("read_file", "a.py", <<>>, Absent),
   Step("delete_file", "a.py", <<>>, Absent),
   Step("just_respond", Absent, <<>>, Absent),
   Step("fly_to_moon", Absent, <<>>, Absent)}

\* longest plan the model's replies carry
MaxPlanLen == 2

RECURSIVE SeqsUpTo(_, _)
SeqsUpTo(S, n) ==
  IF n = 0 THEN {<<>>}
  ELSE LET shorter == SeqsUpTo(S, n - 1)
       IN  shorter \cup {Append(s, x) : s \in {t \in shorter : Len(t) = n - 1}, x \in S}

\* a line of response text: a fixed text t with an interpolated value a, or
\* (raw) the text of a model reply taken over verbatim
Line(t, a) == [t |-> t, a |-> a, raw |-> <<>>]

RawLine(reply) == [t |-> "", a |-> "", raw |-> reply]

\* an ActionPlan as json.loads returns it
Plan(intent, actions, response) ==
  [intent |-> intent, actions |-> actions, response |-> response]

Plans == {Plan("intent", a, Line("explanation", "")) : a \in SeqsUpTo(StepSet, MaxPlanLen)}

NoPlan == Plan("", <<>>, Line("", ""))

\* A reply of the model is a sequence of segments: prose without braces
\* ("text"), a serialised JSON object ("obj", with the plan it denotes), a
\* brace-delimited text that is not JSON ("bad"), a lone "{" or a lone "}"
Seg(k, plan) == [k |-> k, plan |-> plan]

TextSeg == Seg("text", NoPlan)

BadSeg == Seg("bad", NoPlan)

OpenSeg == Seg("open", NoPlan)

CloseSeg == Seg("close", NoPlan)

ObjSeg(plan) == Seg("obj", plan)

SamplePlan == Plan("intent", <<Step("open_browser", Absent, <<>>, "v")>>, Line("explanation", ""))

\* the replies of the analysis call: every plan as the whole reply, and the
\* shapes of free text around, instead of and after an object
Replies ==
  {<<ObjSeg(p)>> : p \in Plans}
    \cup {<<>>, <<TextSeg>>, <<TextSeg, ObjSeg(SamplePlan), TextSeg>>,
          <<BadSeg>>, <<TextSeg, BadSeg>>, <<CloseSeg, TextSeg, OpenSeg>>,
          <<ObjSeg(SamplePlan), TextSeg, ObjSeg(SamplePlan)>>,
          <<ObjSeg(SamplePlan), CloseSeg>>}

\* re.search(r'\{.*\}', text, re.DOTALL): from the first "{" to the last "}"
json_match(reply) ==
  LET opens  == {i \in 1..Len(reply) : reply[i].k \in {"obj", "bad", "open"}}
      closes == {j \in 1..Len(reply) : reply[j].k \in {"obj", "bad", "close"}}
  IN  IF opens = {} \/ closes = {} \/ (\A j \in closes : j < Min(opens))
      THEN [some |-> FALSE, group |-> <<>>]
      ELSE [some |-> TRUE,
            group |-> SubSeq(reply, Min(opens), CHOOSE j \in closes : \A k \in closes : k <= j)]

\* json.loads succeeds exactly on the text of one whole object
json_loads(group) ==
  IF Len(group) = 1 /\ group[1].k = "obj"
  THEN [ok |-> TRUE, plan |-> group[1].plan]
  ELSE [ok |-> FALSE, plan |-> NoPlan]

\* the fallback plan of process_command
FallbackPlan(analysis_text) ==
  Plan("respond", <<Step("just_respond", Absent, <<>>, Absent)>>, RawLine(analysis_text))

\* exception texts of the model client
QuotaError == "429 RESOURCE_EXHAUSTED"

ServerError == "503 UNAVAILABLE"

\* the test of the except branch for a quota error
IsQuota(e) == e \in {QuotaError}

NotConfiguredResponse ==
  <<Line("AI not configured. Please add your GEMINI_API_KEY to the .env file.", "")>>

QuotaResponse == <<Line("API Quota Limit Reached!", "")>>

ErrorResponse(e) == <<Line("Error: ", e)>>

\* the dict process_command returns
Returned(response, actions) == [kind |-> "returned", response |-> response, actions |-> actions]

NoReturn == [kind |-> "none", response |-> <<>>, actions |-> <<>>]

\* an exception that leaves the call instead of a returned value
Escaped(e) == [kind |-> "raised", response |-> <<Line(e, "")>>, actions |-> <<>>]

\* the except branch of process_command
ExceptBranch(e) ==
  IF IsQuota(e) THEN Returned(QuotaResponse, <<>>) ELSE Returned(ErrorResponse(e), <<>>)

\* lines 170-179: the explanation, then a header and one message line per
\* result, each followed by its output line when it has an output
RECURSIVE ResultLines(_)
ResultLines(results) ==
  IF results = <<>> THEN <<>>
  ELSE LET r == Head(results)
       IN  <<Line(r.message.t, r.message.a)>>
             \o (IF r.output # "" THEN <<Line("Output: ", r.output)>> ELSE <<>>)
             \o ResultLines(Tail(results))

final_response(plan, action_results) ==
  <<plan.response>>
    \o (IF action_results # <<>>
        THEN <<Line("**Actions Performed:**", "")>> \o ResultLines(action_results)
        ELSE <<>>)

(* ------------------------------------------------------------------ *)
(* State                                                               *)
(* ------------------------------------------------------------------ *)

VARIABLES
  client,          \* EnhancedAIHandler.client: "None" or "Client"
  memory,          \* UserMemory.memory
  disk,            \* contents of the file user_memory.json
  clock,           \* datetime.now()
  files,           \* the files an action can create, by path
  browser,         \* ActionExecutor.browser_automation and its driver
  pc,              \* "idle", "exec" (inside the plan loop), "done"
  command,         \* the command text of the command being processed
  analysis,        \* the outcome of the analysis call: an exception or a reply
  plan,            \* the plan being executed
  idx,             \* position of the plan loop
  action_results,  \* the list action_results
  calls,           \* registry invocations made for this command, in order
  model_calls,     \* generate_content calls made for this command
  generation,      \* the outcome of the latest content-generation call
  store_log,       \* the latest profile store operations (at most two)
  ret,             \* what process_command returned
  before           \* memory, file and workspace as they were when the command came

vars == <<client, memory, disk, clock, files, browser, pc, command, analysis,
          plan, idx, action_results, calls, model_calls, generation, store_log, ret, before>>

CmdOpenYoutube == <<"o", "p", "e", "n", " ", "y", "o", "u", "t", "u", "b", "e">>

CmdMyNameIsRiya == <<"m", "y", " ", "n", "a", "m", "e", " ", "i", "s", " ", "R", "i", "y", "a">>

\* the command texts sent to the pipeline
Commands == {CmdOpenYoutube, CmdMyNameIsRiya}

CmdRiyaLikesTea == <<"m", "y", " ", "n", "a", "m", "e", " ", "i", "s", " ", "R", "i", "y", "a", ".", " ", "i", " ", "l", "i", "k", "e", " ", "t", "e", "a">>

\* the commands posted to a server: one that holds a name and an interest
\* when the loaded profile has no interests list, else the command texts
PostedCommands(m) == IF LacksInterests(m) THEN {CmdRiyaLikesTea} ELSE Commands

\* the clock advances by one tick per command; no command starts at MaxClock
MaxClock == 2

CmdIAmSam == <<"i", " ", "a", "m", " ", "S", "a", "m">>

NoFiles == [p \in Paths |-> None]

\* the profile an earlier run of the server left after the command "i am Sam"
SamProfile == StoreMutations(_create_default_memory, CmdIAmSam, <<>>, 1).memory

\* the memory file a server process can find when it starts
InitDisks == {AbsentFile, JsonFile(SamProfile), JsonFile(OtherShapeJson)}

\* the workspace a server process can find when it starts
InitFiles == {NoFiles, [NoFiles EXCEPT ![os_path_join("a.py")] = Some(<<"x">>)]}

NoBrowser == [automation |-> FALSE, driver |-> FALSE]

\* is_configured answering True whatever the client is
is_configured_always(c) == TRUE

\* is_configured
is_configured(c) == c # "None"

\* an outcome of client.models.generate_content: an exception or a reply text
Raise(e) == [raise |-> TRUE, e |-> e, text |-> <<>>]

Reply(text) == [raise |-> FALSE, e |-> "", text |-> text]

\* self.client.models.generate_content(...) with the service answering out;
\* without a client the attribute access on None raises
generate_content(c, out) == IF c = "None" THEN Raise("AttributeError") ELSE out

AnalysisOutcomes == {Raise(QuotaError), Raise(ServerError)} \cup {Reply(r) : r \in Replies}

\* replies of the content-generation call: a fenced block with a language
\* tag, plain code, a fence without a newline after it
FencedReply == <<BQ, BQ, BQ, "p", "y", "\n", "x", "\n", BQ, BQ, BQ>>

PlainReply == <<"x">>

InlineFenceReply == <<BQ, BQ, BQ, "x", BQ, BQ, BQ>>

GenOutcomes == {Raise(ServerError), Reply(FencedReply), Reply(PlainReply), Reply(InlineFenceReply)}

\* a registry invocation: the method, its arguments, and what the operating
\* environment made of it
Call(op, filename, arg, env) == [op |-> op, filename |-> filename, arg |-> arg, env |-> env]

\* the methods invoked, in order
Methods(cs) == [i \in 1..Len(cs) |-> cs[i].op]

\* a profile store operation: its name, the command text it was given, the
\* outcomes of its writes, and memory and file as they were before it
StoreOp(op, text, outs, m, d) ==
  [op |-> op, text |-> text, outs |-> outs, memory |-> m, disk |-> d]

\* the log keeps the latest two operations
Logged(log, entry) == IF log = <<>> THEN <<entry>> ELSE <<log[Len(log)], entry>>

\* the per-command variables at the start of process_command
Fresh ==
  /\ idx' = 1
  /\ action_results' = <<>>
  /\ calls' = <<>>
  /\ generation' = Reply(<<>>)

\* the server after construction (ActionExecutor.__init__, UserMemory.__init__,
\* EnhancedAIHandler.__init__) with client c, memory file d and workspace fs,
\* no command taken yet
Constructed(c, d, fs) ==
  /\ client = c
  /\ disk = d
  /\ memory = _load_memory(d)
  /\ clock = 1
  /\ files = fs
  /\ browser = NoBrowser
  /\ pc = "idle"
  /\ command = <<>>
  /\ analysis = [raise |-> FALSE, e |-> "", text |-> <<>>]
  /\ plan = NoPlan
  /\ idx = 1
  /\ action_results = <<>>
  /\ calls = <<>>
  /\ model_calls = 0
  /\ generation = [raise |-> FALSE, e |-> "", text |-> <<>>]
  /\ store_log = <<>>
  /\ ret = NoReturn
  /\ before = [memory |-> memory, disk |-> disk, files |-> files]

Init == \E c \in {"None", "Client"}, d \in InitDisks, fs \in InitFiles : Constructed(c, d, fs)

(* ------------------------------------------------------------------ *)
(* process_command                                                     *)
(* ------------------------------------------------------------------ *)

\* lines 29-104: the configuration test, the user context read at line 43
\* before the try block is entered, the analysis call, the extraction and
\* parsing of the plan
Begin ==
  /\ pc \in {"idle", "done"}
  /\ clock < MaxClock
  /\ clock' = clock + 1
  /\ Fresh
  /\ before' = [memory |-> memory, disk |-> disk, files |-> files]
  /\ UNCHANGED <<client, memory, disk, files, browser, store_log>>
  /\ \E cmd \in PostedCommands(memory) :
       /\ command' = cmd
       /\ IF ~is_configured(client)
          THEN /\ ret' = Returned(NotConfiguredResponse, <<>>)
               /\ pc' = "done"
               /\ model_calls' = 0
               /\ analysis' = Reply(<<>>)
               /\ plan' = NoPlan
          ELSE IF get_context_for_ai(memory).exc
          THEN /\ ret' = Escaped(get_context_for_ai(memory).e)
               /\ pc' = "done"
               /\ model_calls' = 0
               /\ analysis' = Reply(<<>>)
               /\ plan' = NoPlan
          ELSE \E out \in AnalysisOutcomes :
                 LET a == generate_content(client, out)
                     m == json_match(a.text)
                     j == json_loads(m.group)
                 IN  /\ model_calls' = 1
                     /\ analysis' = a
                     /\ IF a.raise
                        THEN /\ ret' = ExceptBranch(a.e)
                             /\ pc' = "done"
                             /\ plan' = NoPlan
                        ELSE IF m.some /\ ~j.ok
                        THEN /\ ret' = ExceptBranch("JSONDecodeError")
                             /\ pc' = "done"
                             /\ plan' = NoPlan
                        ELSE /\ ret' = NoReturn
                             /\ pc' = "exec"
                             /\ plan' = IF m.some THEN j.plan ELSE FallbackPlan(a.text)

\* the step the plan loop is at
CurStep == plan.actions[idx]

InLoop == pc = "exec" /\ idx <= Len(plan.actions)

\* an exception inside the try block ends the command in the except branch
Except(e) ==
  /\ ret' = ExceptBranch(e)
  /\ pc' = "done"
  /\ UNCHANGED <<idx, action_results>>

\* the registry invocation call returned r (or raised out of its body)
Record(call, r) ==
  /\ calls' = Append(calls, call)
  /\ files' = r.files
  /\ browser' = r.browser
  /\ IF r.res.exc
     THEN Except(r.res.message.a)
     ELSE /\ action_results' = Append(action_results, r.res)
          /\ idx' = idx + 1
          /\ UNCHANGED <<ret, pc>>

\* outcomes of the operating environment for the registry method of a tag
EnvOf(tag) ==
  CASE tag \in {"open_idle", "open_vscode"} -> {"ok", "raise", "raise_spawn"}
    [] tag = "create_file" -> {"ok", "raise", "raise_write"}
    [] tag \in {"run_code", "execute_command"} -> {"ok", "nonzero", "timeout", "raise"}
    [] tag = "open_youtube" -> {"ok", "no_driver", "import_error", "no_module", "raise"}
    [] OTHER -> {"ok", "raise"}

\* lines 112-132: a create_file step, with the content-generation call when
\* the step has no content; outs are the outcomes that call can have
CreateFileStep(outs) ==
  /\ InLoop
  /\ CurStep.type = "create_file"
  /\ UNCHANGED <<client, memory, disk, clock, command, analysis, plan, store_log, before>>
  /\ LET filename == Get(CurStep.filename, "script.py")
     IN  IF CurStep.content = <<>>
         THEN \E out \in outs :
                LET g == generate_content(client, out)
                IN  /\ model_calls' = model_calls + 1
                    /\ generation' = g
                    /\ IF g.raise
                       THEN /\ Except(g.e)
                            /\ UNCHANGED <<calls, files, browser>>
                       ELSE \E env \in EnvOf("create_file") :
                              Record(Call("create_file", filename, Absent, env),
                                     create_file(files, browser, filename,
                                                 GeneratedContent(g.text), env))
         ELSE /\ UNCHANGED <<model_calls, generation>>
              /\ \E env \in EnvOf("create_file") :
                   Record(Call("create_file", filename, Absent, env),
                          create_file(files, browser, filename, CurStep.content, env))

ExecCreateFile == CreateFileStep(GenOutcomes)

\* the registry method the dispatch chain calls for a tag
MethodOf(tag) == IF tag = "run_code" THEN "run_python_code" ELSE tag

\* lines 134-168: the call the dispatch chain makes for a step
Dispatch(step, fs, br, env) ==
  CASE step.type = "open_idle" -> open_idle(fs, br, GetOrNone(step.filename), env)
    [] step.type = "open_vscode" -> open_vscode(fs, br, GetOrNone(step.filename), env)
    [] step.type = "run_code" -> run_python_code(fs, br, Get(step.arg, ""), env)
    [] step.type = "execute_command" -> execute_command(fs, br, Get(step.arg, ""), env)
    [] step.type = "open_youtube" -> open_youtube(fs, br, Get(step.arg, ""), env)
    [] step.type = "open_browser" -> open_browser(fs, br, Get(step.arg, ""), env)
    [] step.type = "google_search" -> google_search(fs, br, Get(step.arg, ""), env)
    [] OTHER -> open_application(fs, br, Get(step.arg, ""), env)

\* lines 134-168: a step of one of the other tags the chain tests for
ExecAction ==
  /\ InLoop
  /\ CurStep.type \in ExecutorTags \ {"create_file"}
  /\ UNCHANGED <<client, memory, disk, clock, command, analysis, plan, model_calls,
                 generation, store_log, before>>
  /\ \E env \in EnvOf(CurStep.type) :
       Record(Call(MethodOf(CurStep.type), GetOrNone(CurStep.filename), Get(CurStep.arg, ""), env),
              Dispatch(CurStep, files, browser, env))

\* a dispatch chain that ends in  else: raise ValueError(action_type)
ExecSkipRaises ==
  /\ InLoop
  /\ CurStep.type \notin ExecutorTags
  /\ Except("ValueError")
  /\ UNCHANGED <<client, memory, disk, clock, files, browser, command, analysis,
                 plan, calls, model_calls, generation, store_log, before>>

\* a step no branch of the chain matches: the loop goes on
ExecSkip ==
  /\ InLoop
  /\ CurStep.type \notin ExecutorTags
  /\ idx' = idx + 1
  /\ UNCHANGED <<client, memory, disk, clock, files, browser, pc, command, analysis,
                 plan, action_results, calls, model_calls, generation, store_log, ret, before>>

\* lines 170-193: the response is built, the profile store is updated, the
\* dict is returned; a KeyError of the interests block of
\* extract_and_store_info is raised inside the try block, after the blocks
\* before it have mutated and saved the profile, and ends in the except branch
Finish ==
  /\ pc = "exec"
  /\ idx > Len(plan.actions)
  /\ LET resp == final_response(plan, action_results)
         mut  == IF InterestsRaise(memory, command)
                 THEN StoreUpToInterests(memory, command)
                 ELSE StoreMutations(memory, command, resp, clock)
     IN  /\ memory' = mut.memory
         /\ \E outs \in SaveOutcomeSeqs(Len(mut.saves)) :
              /\ disk' = SaveChain(disk, mut.saves, outs)
              /\ store_log' = Logged(store_log,
                                     StoreOp("extract_and_store_info", command, outs, memory, disk))
         /\ ret' = IF InterestsRaise(memory, command)
                   THEN ExceptBranch("KeyError")
                   ELSE Returned(resp, action_results)
  /\ pc' = "done"
  /\ UNCHANGED <<client, clock, files, browser, command, analysis, plan, idx,
                 action_results, calls, model_calls, generation, before>>

Next == Begin \/ ExecCreateFile \/ ExecAction \/ ExecSkip \/ Finish

Spec == Init /\ [][Next]_vars

(* ------------------------------------------------------------------ *)
(* The create_file step over every short generation reply (SpecFence)   *)
(* ------------------------------------------------------------------ *)

\* pieces of the generation replies: the fence delimiter, a word character,
\* the newline, a blank
FencePieces == {FENCE, <<"a">>, <<"\n">>, <<" ">>}

\* most pieces in a generation reply
MaxReplyLen == 5

RECURSIVE Flatten(_)
Flatten(ps) == IF ps = <<>> THEN <<>> ELSE Head(ps) \o Flatten(Tail(ps))

FenceOutcomes ==
  {Raise(ServerError)} \cup {Reply(Flatten(ps)) : ps \in SeqsUpTo(FencePieces, MaxReplyLen)}

\* a plan whose only step is a create_file without content
FencePlan ==
  Plan("intent", <<Step("create_file", Absent, <<>>, Absent)>>, Line("explanation", ""))

\* process_command entering the plan loop with FencePlan
FenceInit ==
  /\ client = "Client"
  /\ disk = AbsentFile
  /\ memory = _load_memory(disk)
  /\ clock = 2
  /\ files = NoFiles
  /\ browser = NoBrowser
  /\ pc = "exec"
  /\ command = CmdOpenYoutube
  /\ analysis = Reply(<<ObjSeg(FencePlan)>>)
  /\ plan = FencePlan
  /\ idx = 1
  /\ action_results = <<>>
  /\ calls = <<>>
  /\ model_calls = 1
  /\ generation = Reply(<<>>)
  /\ store_log = <<>>
  /\ ret = NoReturn
  /\ before = [memory |-> memory, disk |-> disk, files |-> files]

FenceCreateFile == CreateFileStep(FenceOutcomes)

FenceNext == FenceCreateFile \/ Finish

SpecFence == FenceInit /\ [][FenceNext]_vars

\* the text holds an opening fence and, after it, a closing fence
HasFencedBlock(t) ==
  \E i, j \in 1..Len(t) : StartsAt(t, FENCE, i) /\ StartsAt(t, FENCE, j) /\ j >= i + 3

\* the step the loop has just passed was a create_file step without content
\* whose generation call and whose file write both succeeded
GeneratedFileWritten ==
  /\ idx > 1
  /\ plan.actions[idx - 1].type = "create_file"
  /\ plan.actions[idx - 1].content = <<>>
  /\ ~generation.raise
  /\ Len(action_results) = idx - 1
  /\ action_results[idx - 1].success

\* the body of the file the step just passed has written
WrittenBody == files[os_path_join(Get(plan.actions[idx - 1].filename, "script.py"))].v

\* C4 (as claimed): after a create_file step without content whose generation
\* call succeeded with a reply holding a fenced block, the file written does
\* not contain the fence delimiter, whatever the shape of the fence.
C4_NoFenceInFile ==
  (GeneratedFileWritten /\ HasFencedBlock(generation.text)) => ~Contains(WrittenBody, FENCE)

(* ------------------------------------------------------------------ *)
(* Properties of the command pipeline (checked under Spec)             *)
(* ------------------------------------------------------------------ *)

\* C1: when the model credential is absent, every command returns the fixed
\* "not configured" response with an empty action list, and while it is
\* handled no registry method is invoked, no model call is made, and the
\* profile (in memory and on file) and the workspace stay as they were.
C1_NotConfigured ==
  client = "None" =>
    /\ pc # "exec"
    /\ calls = <<>>
    /\ model_calls = 0
    /\ memory = before.memory
    /\ disk = before.disk
    /\ files = before.files
    /\ (pc = "done" => ret = Returned(NotConfiguredResponse, <<>>))

\* a command that declares a name has been answered without a credential
C1_Witness ==
  /\ client = "None"
  /\ pc = "done"
  /\ command = CmdMyNameIsRiya
  /\ ret.response = NotConfiguredResponse

\* the registry methods a sequence of steps names: one per step, in order,
\* none for just_respond
RECURSIVE NamedMethods(_)
NamedMethods(steps) ==
  IF steps = <<>> THEN <<>>
  ELSE (IF Head(steps).type = "just_respond" THEN <<>> ELSE <<MethodOf(Head(steps).type)>>)
         \o NamedMethods(Tail(steps))

\* the reply holds exactly one JSON object, possibly inside free text
SingleJsonReply ==
  /\ model_calls >= 1
  /\ ~analysis.raise
  /\ Cardinality({i \in 1..Len(analysis.text) : analysis.text[i].k = "obj"}) = 1
  /\ \A i \in 1..Len(analysis.text) : analysis.text[i].k \in {"obj", "text"}

\* C2 (as claimed): for a reply holding a single well-formed JSON plan whose
\* tags all belong to the fixed tag set, the registry invocations made so far
\* are exactly the methods named by the steps the loop has passed, in plan
\* order, once each (just_respond naming none).
C2_InvokesNamedActions ==
  (/\ pc = "exec"
   /\ SingleJsonReply
   /\ \A i \in 1..Len(plan.actions) : plan.actions[i].type \in SpecTags)
    => Methods(calls) = NamedMethods(SubSeq(plan.actions, 1, idx - 1))

\* the analysis call returned a reply from which no JSON object can be parsed
NoParseableJson ==
  /\ model_calls >= 1
  /\ ~analysis.raise
  /\ \/ ~json_match(analysis.text).some
     \/ ~json_loads(json_match(analysis.text).group).ok

\* C3 (as claimed): for a reply with no parseable JSON object the plan is the
\* single step just_respond, and the command ends with the raw reply as its
\* response, not with an error response.
C3_FallbackNeverRaises ==
  (pc # "idle" /\ NoParseableJson) =>
    /\ Len(plan.actions) = 1
    /\ plan.actions[1].type = "just_respond"
    /\ (pc = "done" => ret.response = <<RawLine(analysis.text)>>)

\* the message lines of the results, in order
Messages(results) ==
  [i \in 1..Len(results) |-> Line(results[i].message.t, results[i].message.a)]

\* the lines of a response after its first that are neither the header nor
\* an output line
MessageLinesOf(response) ==
  SelectSeq(Tail(response), LAMBDA l : l.t \notin {"**Actions Performed:**", "Output: "})

\* C8 (as claimed): when a command that executed actions ends, its response
\* holds one message line per executed action, in execution order; no result
\* of an executed action is dropped, also when a later step fails.
C8_NoResultDropped ==
  (pc = "done" /\ action_results # <<>>) =>
    MessageLinesOf(ret.response) = Messages(action_results)

\* C9: a step whose tag is outside the tag set is ignored and never fatal:
\* passing it invokes no registry method, adds no result, touches neither
\* the workspace nor the response, and leaves the loop running at the next
\* step; and a plan made only of such steps ends with the plain explanation.
C9_UnknownTagIgnored ==
  [][/\ (InLoop /\ CurStep.type \notin SpecTags) =>
          /\ calls' = calls
          /\ action_results' = action_results
          /\ files' = files
          /\ browser' = browser
          /\ model_calls' = model_calls
          /\ ret' = ret
          /\ pc' = "exec"
          /\ idx' = idx + 1
     /\ (/\ pc = "exec"
         /\ pc' = "done"
         /\ plan.actions # <<>>
         /\ \A i \in 1..Len(plan.actions) : plan.actions[i].type \notin SpecTags) =>
          ret' = Returned(<<plan.response>>, <<>>)]_vars

\* an unknown step was passed, the step after it was executed, and the
\* command returned the aggregated response
C9_Witness ==
  /\ pc = "done"
  /\ Len(plan.actions) = 2
  /\ plan.actions[1].type = "fly_to_moon"
  /\ Methods(calls) = <<"open_browser">>
  /\ ret = Returned(final_response(plan, action_results), action_results)
  /\ Len(action_results) = 1

\* C11 (as claimed): whatever file name a plan supplies, no file outside the
\* workspace directory is written or removed by the actions: every path
\* outside the workspace holds what it held when the command began.
C11_WorkspaceConfined ==
  \A p \in Paths : p.dir # workspace => files[p] = before.files[p]

(* ------------------------------------------------------------------ *)
(* The profile store on its own: extract_and_store_info, clear_memory   *)
(* and a fresh load of the file (SpecStore)                             *)
(* ------------------------------------------------------------------ *)

\* the memory file a UserMemory object can find when it is constructed:
\* files that load as a profile of the documented shape
StoreInitDisks == {AbsentFile, CorruptFile, JsonFile(SamProfile)}

\* and those together with a file of another JSON shape
LoadableDisks == StoreInitDisks \cup {JsonFile(OtherShapeJson)}

CmdInterestedInChess == <<"i", "n", "t", "e", "r", "e", "s", "t", "e", "d", " ", "i", "n", " ", "c", "h", "e", "s", "s">>

\* commands handed to extract_and_store_info: one without a trigger phrase,
\* a name declaration, an interest declaration
StoreCommands == {CmdOpenYoutube, CmdMyNameIsRiya, CmdInterestedInChess}

\* most store operations in a behaviour
MaxStoreOps == 3

StoreInit == \E d \in LoadableDisks : Constructed("Client", d, NoFiles)

\* the variables of the command pipeline, which the store operations leave alone
pipeline_vars ==
  <<client, files, browser, pc, command, analysis, plan, idx, action_results, calls,
    model_calls, generation, before>>

\* extract_and_store_info that falls back to the file when a write fails
StoreInfoReloading ==
  /\ clock <= MaxStoreOps
  /\ \E cmd \in StoreCommands :
       IF StoreRaises(memory, cmd)
       THEN /\ ret' = Escaped("KeyError")
            /\ store_log' = Logged(store_log,
                                   StoreOp("extract_and_store_info", cmd, <<>>, memory, disk))
            /\ UNCHANGED <<memory, disk>>
       ELSE LET mut == StoreMutations(memory, cmd, <<>>, clock)
            IN  /\ ret' = NoReturn
                /\ \E outs \in SaveOutcomeSeqs(Len(mut.saves)) :
                     /\ disk' = SaveChain(disk, mut.saves, outs)
                     /\ memory' = IF \A i \in 1..Len(outs) : outs[i] = "ok"
                                  THEN mut.memory
                                  ELSE _load_memory(SaveChain(disk, mut.saves, outs))
                     /\ store_log' = Logged(store_log,
                                            StoreOp("extract_and_store_info", cmd, outs, memory, disk))
  /\ clock' = clock + 1
  /\ UNCHANGED pipeline_vars

\* extract_and_store_info(user_message, ai_response); on a memory of another
\* shape the first block that mutates raises KeyError
StoreInfo ==
  /\ clock <= MaxStoreOps
  /\ \E cmd \in StoreCommands :
       IF StoreRaises(memory, cmd)
       THEN /\ ret' = Escaped("KeyError")
            /\ store_log' = Logged(store_log,
                                   StoreOp("extract_and_store_info", cmd, <<>>, memory, disk))
            /\ UNCHANGED <<memory, disk>>
       ELSE LET mut == StoreMutations(memory, cmd, <<>>, clock)
            IN  /\ memory' = mut.memory
                /\ ret' = NoReturn
                /\ \E outs \in SaveOutcomeSeqs(Len(mut.saves)) :
                     /\ disk' = SaveChain(disk, mut.saves, outs)
                     /\ store_log' = Logged(store_log,
                                            StoreOp("extract_and_store_info", cmd, outs, memory, disk))
  /\ clock' = clock + 1
  /\ UNCHANGED pipeline_vars

\* clear_memory()
Clear ==
  /\ clock <= MaxStoreOps
  /\ \E outcome \in SaveOutcomes :
       LET r == clear_memory(disk, outcome)
       IN  /\ memory' = r.memory
           /\ disk' = r.disk
           /\ store_log' = Logged(store_log,
                                  StoreOp("clear_memory", <<>>, <<outcome>>, memory, disk))
  /\ ret' = NoReturn
  /\ clock' = clock + 1
  /\ UNCHANGED pipeline_vars

\* a fresh read of the file: self.memory = self._load_memory(), as a new
\* UserMemory object does
Load ==
  /\ clock <= MaxStoreOps
  /\ memory' = _load_memory(disk)
  /\ store_log' = Logged(store_log, StoreOp("_load_memory", <<>>, <<>>, memory, disk))
  /\ ret' = NoReturn
  /\ clock' = clock + 1
  /\ UNCHANGED <<disk>>
  /\ UNCHANGED pipeline_vars

\* what a read of the profile store gave its caller
ReadResult(op, r) ==
  IF r.exc THEN Escaped(r.e) ELSE [kind |-> op, response |-> r.v, actions |-> <<>>]

\* get_context_for_ai()
ContextSummary ==
  /\ ret' = ReadResult("get_context_for_ai", get_context_for_ai(memory))
  /\ UNCHANGED <<memory, disk, clock, store_log>>
  /\ UNCHANGED pipeline_vars

\* get_memory_summary() and get_profile(), as GET /api/memory calls them
Summary ==
  /\ ret' = IF get_memory_summary(memory).exc
            THEN Escaped(get_memory_summary(memory).e)
            ELSE ReadResult("get_profile", get_profile(memory))
  /\ UNCHANGED <<memory, disk, clock, store_log>>
  /\ UNCHANGED pipeline_vars

StoreNext == StoreInfo \/ Clear \/ Load \/ ContextSummary \/ Summary

SpecStore == StoreInit /\ [][StoreNext]_vars

\* the latest two store operations were clear_memory, then a fresh load
ClearThenLoad ==
  /\ Len(store_log) = 2
  /\ store_log[1].op = "clear_memory"
  /\ store_log[2].op = "_load_memory"

NoProfileOnFile(d) == d.kind # "json" \/ ~HasShape(d.data)

\* C12 (as claimed): a UserMemory constructed over a file that holds no
\* profile of the documented shape has the default profile in memory, and no
\* operation of the profile store called later raises.
C12_LoadNeverFails ==
  /\ (store_log = <<>> /\ NoProfileOnFile(disk)) => memory = _create_default_memory
  /\ ret.kind # "raised"

(* ------------------------------------------------------------------ *)
(* extract_and_store_info over commands that declare a name (SpecName)  *)
(* ------------------------------------------------------------------ *)

W_Riya == <<"R", "i", "y", "a">>

W_riya == <<"r", "i", "y", "a">>

W_RIYA == <<"R", "I", "Y", "A">>

W_McDonald == <<"M", "c", "D", "o", "n", "a", "l", "d">>

F_my_name_is == <<"m", "y", " ", "n", "a", "m", "e", " ", "i", "s", " ">>

F_My_Name_Is == <<"M", "y", " ", "N", "a", "m", "e", " ", "I", "s", " ">>

F_tommy == <<"T", "o", "m", "m", "y", " ", "n", "a", "m", "e", " ", "i", "s", " ", "b", "o", "b", " ", "a", "n", "d", " ">>

F_i_am_sam == <<"i", " ", "a", "m", " ", "S", "a", "m", ".", " ">>

F_hoon == <<"m", "a", "i", "n", " ", "d", "e", "v", " ", "h", "o", "o", "n", ",", " ">>

F_doctor == <<".", " ", "i", " ", "w", "o", "r", "k", " ", "a", "s", " ", "a", " ", "d", "o", "c", "t", "o", "r">>

F_tea == <<" ", "a", "n", "d", " ", "i", " ", "l", "i", "k", "e", " ", "t", "e", "a">>

\* command texts that declare a name: what stands before the declaration
\* (nothing, another name phrase, a text that holds the declaration's words
\* inside a longer word), the declaration in two letter cases, the word, and
\* what follows it (nothing, an occupation phrase, an interest phrase)
NameCommands ==
  {pre \o decl \o w \o post :
     pre \in {<<>>, F_i_am_sam, F_hoon, F_tommy},
     decl \in {F_my_name_is, F_My_Name_Is},
     w \in {W_Riya, W_riya, W_RIYA, W_McDonald},
     post \in {<<>>, F_doctor, F_tea}}

\* a command has arrived; no store operation has run on it yet
NameInit ==
  /\ client = "Client"
  /\ disk \in StoreInitDisks
  /\ memory = _load_memory(disk)
  /\ clock = 1
  /\ files = NoFiles
  /\ browser = NoBrowser
  /\ pc = "idle"
  /\ command \in NameCommands
  /\ analysis = Reply(<<>>)
  /\ plan = NoPlan
  /\ idx = 1
  /\ action_results = <<>>
  /\ calls = <<>>
  /\ model_calls = 0
  /\ generation = Reply(<<>>)
  /\ store_log = <<>>
  /\ ret = NoReturn
  /\ before = [memory |-> memory, disk |-> disk, files |-> files]

\* extract_and_store_info(command, ai_response)
StoreCommand ==
  /\ store_log = <<>>
  /\ LET mut == StoreMutations(memory, command, <<>>, clock)
     IN  /\ memory' = mut.memory
         /\ \E outs \in SaveOutcomeSeqs(Len(mut.saves)) :
              /\ disk' = SaveChain(disk, mut.saves, outs)
              /\ store_log' = Logged(store_log,
                                     StoreOp("extract_and_store_info", command, outs, memory, disk))
  /\ clock' = clock + 1
  /\ UNCHANGED ret
  /\ UNCHANGED pipeline_vars

NameNext == StoreCommand

SpecName == NameInit /\ [][NameNext]_vars

\* where the declaration  my name is W  starts in t: the leftmost place
\* where the phrase is followed by a word character
DeclarationAt(t) ==
  Min({i \in 1..Len(t) : /\ StartsAt(t, F_my_name_is, i)
                         /\ i + Len(F_my_name_is) <= Len(t)
                         /\ IsWord(t[i + Len(F_my_name_is)])})

\* the text declares a name with the phrase as written, in lower case
DeclaresName(t) ==
  \E i \in 1..Len(t) : /\ StartsAt(t, F_my_name_is, i)
                       /\ i + Len(F_my_name_is) <= Len(t)
                       /\ IsWord(t[i + Len(F_my_name_is)])

\* the word W of the declaration of t at place i, taken from text
DeclaredWord(text, i) ==
  LET p == i + Len(F_my_name_is)
  IN  SubSeq(text, p, p + WordRun(text, p) - 1)

\* W with its first letter upper-cased and the rest as written
UpperFirst(w) == [i \in 1..Len(w) |-> IF i = 1 THEN UpperChar(w[i]) ELSE w[i]]

\* extract_and_store_info has run on the command
Stored == Len(store_log) = 1 /\ store_log[1].op = "extract_and_store_info"

\* C6 (as claimed): for a command text containing the declaration
\* "my name is W", the stored name after extract_and_store_info is W with its
\* first letter upper-cased, whatever was stored before and whatever other
\* trigger phrases the text holds.
C6_NameUpperFirst_AsClaimed ==
  (Stored /\ DeclaresName(command))
     => memory.name = Some(UpperFirst(DeclaredWord(command, DeclarationAt(command))))

\* C6 (amended): the declaration is matched without regard to letter case,
\* the leftmost match is the one used, and the stored name is W in lower case
\* with its first letter upper-cased.
C6_NameCapitalized ==
  (Stored /\ DeclaresName(Lower(command)))
     => memory.name =
          Some(UpperFirst(Lower(DeclaredWord(command, DeclarationAt(Lower(command))))))

\* a command with another name phrase before the declaration, on a profile
\* that had another name, has stored the declared word
C6_Witness ==
  /\ Stored
  /\ command = F_i_am_sam \o F_my_name_is \o W_Riya \o F_doctor
  /\ store_log[1].memory.name = Some(<<"S", "a", "m">>)
  /\ memory.name = Some(W_Riya)

(* ------------------------------------------------------------------ *)
(* The action registry called directly (SpecRegistry)                   *)
(* ------------------------------------------------------------------ *)

\* the action methods of ActionExecutor
RegistryMethods ==
  {"create_file", "open_idle", "open_notepad", "open_vscode", "run_python_code",
   "execute_command", "list_files", "read_file", "open_browser", "open_youtube",
   "google_search", "open_application", "delete_file"}

\* file-name and text arguments of a direct call
RegistryFileNames == {"a.py", "/tmp/x.py", PyNone}

RegistryArgs == {"x", PyNone}

\* most registry calls in a behaviour
MaxRegistryCalls == 2

\* outcomes of the operating environment for a method
RegistryEnv(op) == EnvOf(IF op = "run_python_code" THEN "run_code" ELSE op)

\* self.<op>(...) on an ActionExecutor
Invoke(op, fs, br, filename, arg, env) ==
  CASE op = "create_file" -> create_file(fs, br, filename, <<"x">>, env)
    [] op = "open_idle" -> open_idle(fs, br, filename, env)
    [] op = "open_notepad" -> open_notepad(fs, br, filename, env)
    [] op = "open_vscode" -> open_vscode(fs, br, filename, env)
    [] op = "run_python_code" -> run_python_code(fs, br, arg, env)
    [] op = "execute_command" -> execute_command(fs, br, arg, env)
    [] op = "list_files" -> list_files(fs, br, env)
    [] op = "read_file" -> read_file(fs, br, filename, env)
    [] op = "open_browser" -> open_browser(fs, br, arg, env)
    [] op = "open_youtube" -> open_youtube(fs, br, arg, env)
    [] op = "google_search" -> google_search(fs, br, arg, env)
    [] op = "open_application" -> open_application(fs, br, arg, env)
    [] OTHER -> delete_file(fs, br, filename, env)

\* the methods that take a file name, and those that take a text
TakesFileName ==
  {"create_file", "open_idle", "open_notepad", "open_vscode", "read_file", "delete_file"}

TakesArg ==
  {"run_python_code", "execute_command", "open_browser", "open_youtube",
   "google_search", "open_application"}

RegistryInit == \E fs \in InitFiles : Constructed("Client", AbsentFile, fs)

\* one method of the registry is called; calls and action_results keep the
\* latest call and what it returned
RegistryCall ==
  /\ clock <= MaxRegistryCalls
  /\ \E op \in RegistryMethods :
       \E filename \in (IF op \in TakesFileName THEN RegistryFileNames ELSE {Absent}),
          arg \in (IF op \in TakesArg THEN RegistryArgs ELSE {Absent}),
          env \in RegistryEnv(op) :
         LET r == Invoke(op, files, browser, filename, arg, env)
         IN  /\ calls' = <<Call(op, filename, arg, env)>>
             /\ action_results' = <<r.res>>
             /\ files' = r.files
             /\ browser' = r.browser
  /\ clock' = clock + 1
  /\ UNCHANGED <<client, memory, disk, pc, command, analysis, plan, idx, model_calls,
                 generation, store_log, ret, before>>

RegistryNext == RegistryCall

SpecRegistry == RegistryInit /\ [][RegistryNext]_vars

\* a registry method has been called
Called == Len(calls) = 1

\* the generic error message of execute_command
CommandErrorPrefix == "Error executing command: "

\* C7 (as claimed): an execute_command call whose process exceeds the timeout
\* returns a failed result whose message is a timeout message of its own, as
\* that of run_python_code is, and not the generic command-error message.
C7_TimeoutMessage ==
  (Called /\ calls[1].op = "execute_command" /\ calls[1].arg # PyNone
          /\ calls[1].env = "timeout")
     => /\ ~action_results[1].exc
        /\ ~action_results[1].success
        /\ action_results[1].message.t # CommandErrorPrefix

\* an exception is raised inside the call: by the operating environment, or
\* by an argument that is None where a str is needed
RaisesInside(call) ==
  \/ call.env \in {"raise", "raise_spawn", "raise_write"}
  \/ call.op \in {"create_file", "read_file", "delete_file"} /\ call.filename = PyNone
  \/ call.op \in TakesArg /\ call.arg = PyNone

LastOp == store_log[Len(store_log)]

\* the latest operation made a write of the file that failed
WriteFailed ==
  /\ store_log # <<>>
  /\ LastOp.op \in {"extract_and_store_info", "clear_memory"}
  /\ \E i \in 1..Len(LastOp.outs) : LastOp.outs[i] # "ok"

\* the profile the latest operation leaves in memory when its mutations are
\* applied to the profile it found (the operation ran at time clock - 1)
MutatedProfile ==
  IF LastOp.op = "clear_memory" THEN _create_default_memory
  ELSE StoreMutations(LastOp.memory, LastOp.text, <<>>, clock - 1).memory

\* C13: when a write of the file fails during extract_and_store_info or
\* clear_memory, no exception reaches the caller and the profile in memory
\* keeps the mutation: every later get_context_for_ai and get_profile shows
\* the mutated profile, not the one on the file.
C13_MemoryAuthoritative ==
  WriteFailed =>
    /\ ret.kind # "raised"
    /\ memory = MutatedProfile
    /\ (LastOp.op = "extract_and_store_info" /\ LastOp.text = CmdMyNameIsRiya) =>
          /\ memory.name = Some(W_Riya)
          /\ memory.facts # <<>>
          /\ memory.facts[Len(memory.facts)].content = CmdMyNameIsRiya
    /\ ret.kind = "get_context_for_ai" => ret.response = get_context_for_ai(MutatedProfile).v
    /\ ret.kind = "get_profile" => ret.response = get_profile(MutatedProfile).v

\* both writes of a name declaration failed and left the file of another
\* profile in place, and the context read afterwards shows the declared name
C13_Witness ==
  /\ WriteFailed
  /\ LastOp.text = CmdMyNameIsRiya
  /\ LastOp.outs = <<"fail_untouched", "fail_untouched">>
  /\ disk = JsonFile(SamProfile)
  /\ ret.kind = "get_context_for_ai"
  /\ ret.response[2] = CtxLine("- Name: ", <<W_Riya>>)

\* the phrases the three blocks of extract_and_store_info test for
TriggerPhrases ==
  {P_my_name_is, P_mera_naam, P_i_am, P_main_hoon,
   P_i_work_as, P_i_am_a, P_main, P_kaam_karta, P_kaam_karti,
   P_i_like, P_i_love, P_mujhe_pasand, P_interested_in}

\* the latest operation was an extract_and_store_info that returned
ExtractReturned ==
  /\ store_log # <<>>
  /\ LastOp.op = "extract_and_store_info"
  /\ HasShape(LastOp.memory)

\* C14 (as claimed): for a command text holding any trigger phrase of
\* extract_and_store_info, the call appends exactly one fact whose content is
\* the command text and sets last_updated, whether or not a field was
\* extracted.
C14_FactForEveryTrigger ==
  (ExtractReturned /\ \E p \in TriggerPhrases : Contains(Lower(LastOp.text), p)) =>
    /\ Len(memory.facts) = Len(LastOp.memory.facts) + 1
    /\ memory.facts[Len(memory.facts)].content = LastOp.text
    /\ memory.last_updated = clock - 1

\* the lines of a rendered context that carry the given label
LinesLabelled(lines, label) == {i \in 1..Len(lines) : lines[i].label = label}

\* C15 (as claimed): the context summary renders every profile field that is
\* set (name, occupation, interests) and the min(5, n) most recent facts; the
\* occupation and the interests appear even when the profile has no name and
\* no facts.
C15_ContextRendersSetFields ==
  ret.kind = "get_context_for_ai" =>
    /\ memory.name.some =>
         \E i \in LinesLabelled(ret.response, "- Name: ") :
           ret.response[i].texts = <<memory.name.v>>
    /\ memory.occupation.some =>
         \E i \in LinesLabelled(ret.response, "- Occupation: ") :
           ret.response[i].texts = <<memory.occupation.v>>
    /\ memory.interests # <<>> =>
         \E i \in LinesLabelled(ret.response, "- Interests: ") :
           ret.response[i].texts = memory.interests
    /\ Cardinality(LinesLabelled(ret.response, "- ")) = Min({RecentFacts, Len(memory.facts)})

\* C16 (as claimed): process_command never raises to the HTTP handler; every
\* command it is given ends with a returned response dictionary.
C16_NeverRaisesToHandler ==
  pc = "done" => ret.kind = "returned"

\* the segments of a reply that start with an opening brace
OpeningSegs(reply) == {i \in 1..Len(reply) : reply[i].k \in {"obj", "bad", "open"}}

\* the reply embeds a well-formed JSON object at its first opening brace
EmbedsJsonObject(reply) ==
  /\ OpeningSegs(reply) # {}
  /\ reply[Min(OpeningSegs(reply))].k = "obj"

\* C17 (as claimed): for a reply of the analysis call that embeds a
\* well-formed JSON object in free text, the plan is the first top-level
\* object of the reply, also when the text after the object holds further
\* braces or a second object.
C17_FirstJsonObjectParsed ==
  (/\ pc # "idle"
   /\ model_calls >= 1
   /\ ~analysis.raise
   /\ EmbedsJsonObject(analysis.text))
    => plan = analysis.text[Min(OpeningSegs(analysis.text))].plan

\* C18 (as claimed): once a plan has begun executing, a failure of a step (a
\* failed result of the registry, a timeout, or a failure of the nested
\* generation call of a create_file step) never keeps the later steps from
\* being dispatched: when the command ends, the loop has passed every step of
\* the plan.
C18_EveryStepRuns ==
  (pc = "done" /\ plan.actions # <<>>) => idx = Len(plan.actions) + 1

(* ------------------------------------------------------------------ *)
(* Two commands posted to one server process                           *)
(* ------------------------------------------------------------------ *)

\* The endpoints of main.py are coroutines of one event loop; the endpoint of
\* POST /api/command awaits only process_command, whose body awaits nothing
\* and so never suspends: a request that has arrived waits until the handler
\* of the request before it has returned.
\* calls holds the requests that have arrived, in order, and idx is the
\* request the event loop handles next.

\* the commands the two clients post: both mutate the profile
RaceCommands == {CmdMyNameIsRiya, CmdInterestedInChess}

\* most requests posted in a behaviour
MaxRequests == 2

\* a posted request: its command and how many requests had been handled when
\* it arrived
Request(text, at) == [text |-> text, at |-> at]

RaceInit == \E d \in StoreInitDisks : Constructed("Client", d, NoFiles)

race_vars ==
  <<client, files, browser, pc, command, analysis, plan, action_results, model_calls,
    generation>>

\* a client posts a command while the server is running; before keeps the
\* state of the server at the latest arrival
RaceArrive ==
  /\ Len(calls) < MaxRequests
  /\ \E cmd \in RaceCommands \ {calls[i].text : i \in 1..Len(calls)} :
       calls' = Append(calls, Request(cmd, idx - 1))
  /\ before' = [memory |-> memory, disk |-> disk, files |-> files]
  /\ UNCHANGED <<memory, disk, clock, idx, store_log, ret>>
  /\ UNCHANGED race_vars

\* the outcomes of the part of process_command before the profile update:
\* the plan completes, or the except branch is taken
PipelineOutcomes == {"completes", "except"}

\* a handler that updates the profile it loaded when the request arrived
RaceHandleStale ==
  /\ idx <= Len(calls)
  /\ idx' = idx + 1
  /\ clock' = clock + 1
  /\ \E po \in PipelineOutcomes :
       IF po = "except"
       THEN /\ ret' = ExceptBranch(ServerError)
            /\ UNCHANGED <<memory, disk, store_log>>
       ELSE LET mut == StoreMutations(before.memory, calls[idx].text, <<>>, clock)
            IN  /\ memory' = mut.memory
                /\ ret' = Returned(<<>>, <<>>)
                /\ \E outs \in SaveOutcomeSeqs(Len(mut.saves)) :
                     /\ disk' = SaveChain(disk, mut.saves, outs)
                     /\ store_log' = Logged(store_log,
                                            StoreOp("extract_and_store_info", calls[idx].text,
                                                    outs, memory, disk))
  /\ UNCHANGED <<calls, before>>
  /\ UNCHANGED race_vars

\* POST /api/command: the event loop runs the handler of the oldest waiting
\* request from its first line to its return
RaceHandle ==
  /\ idx <= Len(calls)
  /\ idx' = idx + 1
  /\ clock' = clock + 1
  /\ \E po \in PipelineOutcomes :
       IF po = "except"
       THEN /\ ret' = ExceptBranch(ServerError)
            /\ UNCHANGED <<memory, disk, store_log>>
       ELSE LET mut == StoreMutations(memory, calls[idx].text, <<>>, clock)
            IN  /\ memory' = mut.memory
                /\ ret' = Returned(<<>>, <<>>)
                /\ \E outs \in SaveOutcomeSeqs(Len(mut.saves)) :
                     /\ disk' = SaveChain(disk, mut.saves, outs)
                     /\ store_log' = Logged(store_log,
                                            StoreOp("extract_and_store_info", calls[idx].text,
                                                    outs, memory, disk))
  /\ UNCHANGED <<calls, before>>
  /\ UNCHANGED race_vars

RaceNext == RaceArrive \/ RaceHandle

\* the event loop takes up the oldest waiting request (the step every
\* RaceHandle makes on idx)
RaceProgress == idx <= Len(calls) /\ idx' = idx + 1

\* both clients post their command, and the event loop goes on while a
\* request waits
SpecRace == RaceInit /\ [][RaceNext]_vars /\ WF_vars(RaceArrive) /\ WF_idx(RaceProgress)

\* the profile p holds the update the command text makes
HoldsUpdate(p, text) ==
  LET u == StoreMutations(_create_default_memory, text, <<>>, NoTime).memory
  IN  /\ u.name.some => p.name = u.name
      /\ u.occupation.some => p.occupation = u.occupation
      /\ \A i \in 1..Len(u.interests) : \E j \in 1..Len(p.interests) : p.interests[j] = u.interests[i]
      /\ \A i \in 1..Len(u.facts) : \E j \in 1..Len(p.facts) : p.facts[j].content = u.facts[i].content

\* both commands have updated the profile and every write succeeded
BothStored ==
  /\ Len(store_log) = 2
  /\ \A i \in 1..2 : \A k \in 1..Len(store_log[i].outs) : store_log[i].outs[k] = "ok"

\* the persisted profile lacks the update of one of the two commands
LostUpdate ==
  /\ BothStored
  /\ \/ disk.kind # "json"
     \/ \E i \in 1..2 : ~HoldsUpdate(disk.data, store_log[i].text)

MutatedAndWritten ==
  /\ store_log # <<>>
  /\ LastOp.op \in {"extract_and_store_info", "clear_memory"}
  /\ memory # LastOp.memory
  /\ LastOp.outs # <<>>
  /\ \A k \in 1..Len(LastOp.outs) : LastOp.outs[k] = "ok"

\* C20: after a completed extract_and_store_info or clear_memory that mutated
\* the in-memory profile and whose file writes succeeded, the profile file
\* holds exactly the whole in-memory profile: fields, facts and last_updated.
C20_MutationPersisted ==
  MutatedAndWritten => disk = JsonFile(memory)

\* a name declaration stored a name, a fact and last_updated on a profile
\* that had none, and all of it is on file
C20_Witness ==
  /\ MutatedAndWritten
  /\ LastOp.text = CmdMyNameIsRiya
  /\ Len(LastOp.outs) = 2
  /\ LastOp.memory = _create_default_memory
  /\ disk.kind = "json"
  /\ disk.data.name = Some(W_Riya)
  /\ disk.data.facts[Len(disk.data.facts)].content = CmdMyNameIsRiya
  /\ disk.data.last_updated = memory.last_updated
  /\ memory.last_updated # NoTime

\* the step is an extract_and_store_info or a clear_memory on a profile of
\* the default shape
StoreOpStep ==
  /\ clock' # clock
  /\ store_log' # <<>>
  /\ store_log'[Len(store_log')].op \in {"extract_and_store_info", "clear_memory"}
  /\ HasShape(memory)
  /\ HasShape(memory')

\* C21: facts are append-only: an extract_and_store_info leaves the facts
\* list unchanged or appends exactly one Fact at its end, a clear_memory
\* leaves it empty; no operation edits, reorders or removes an individual
\* Fact.
C21_FactsAppendOnly ==
  [][StoreOpStep =>
       \/ /\ store_log'[Len(store_log')].op = "extract_and_store_info"
          /\ \/ memory'.facts = memory.facts
             \/ /\ Len(memory'.facts) = Len(memory.facts) + 1
                /\ SubSeq(memory'.facts, 1, Len(memory.facts)) = memory.facts
       \/ /\ store_log'[Len(store_log')].op = "clear_memory"
          /\ memory'.facts = <<>>]_vars

\* a fact was appended to a facts list that already held one
C21_Witness ==
  /\ store_log # <<>>
  /\ LastOp.op = "extract_and_store_info"
  /\ HasShape(LastOp.memory)
  /\ LastOp.memory.facts # <<>>
  /\ Len(memory.facts) = Len(LastOp.memory.facts) + 1
  /\ memory.facts[Len(memory.facts)].content = LastOp.text
  /\ memory.facts[1] = LastOp.memory.facts[1]

(* ------------------------------------------------------------------ *)
(* Interest declarations on a fresh profile                            *)
(* ------------------------------------------------------------------ *)

CmdILikeTea == <<"i", " ", "l", "i", "k", "e", " ", "t", "e", "a">>

CmdTeaTwice == <<"i", " ", "l", "i", "k", "e", " ", "t", "e", "a", ".", " ", "i", " ", "l", "o", "v", "e", " ", "t", "e", "a">>

CmdChessThenTea == <<"i", "n", "t", "e", "r", "e", "s", "t", "e", "d", " ", "i", "n", " ", "c", "h", "e", "s", "s", ".", " ", "i", " ", "l", "i", "k", "e", " ", "t", "e", "a">>

\* commands that declare interests: one interest, the same interest twice,
\* two interests whose phrases stand in the text against the order of the
\* pattern list, and an interest alone
InterestCommands == {CmdILikeTea, CmdTeaTwice, CmdChessThenTea, CmdInterestedInChess}

\* the server starts without a readable profile file
InterestInit == \E d \in {AbsentFile, CorruptFile} : Constructed("Client", d, NoFiles)

\* most interest commands in a behaviour
MaxInterestOps == 2

\* extract_and_store_info(user_message, ai_response) on an interest command
InterestInfo ==
  /\ clock <= MaxInterestOps
  /\ \E cmd \in InterestCommands :
       LET mut == StoreMutations(memory, cmd, <<>>, clock)
       IN  /\ memory' = mut.memory
           /\ ret' = NoReturn
           /\ \E outs \in SaveOutcomeSeqs(Len(mut.saves)) :
                /\ disk' = SaveChain(disk, mut.saves, outs)
                /\ store_log' = Logged(store_log,
                                       StoreOp("extract_and_store_info", cmd, outs, memory, disk))
  /\ clock' = clock + 1
  /\ UNCHANGED pipeline_vars

InterestNext == InterestInfo \/ Clear

SpecInterests == InterestInit /\ [][InterestNext]_vars

\* no element of the list occurs twice
NoDuplicate(list) == \A i, j \in 1..Len(list) : list[i] = list[j] => i = j

\* where in the lowered text t the pattern  lit (.+?)(?:\.|$)  matches
LazyMatchAt(t, lit) ==
  {i \in 1..Len(t) : StartsAt(t, lit, i) /\ LazyToDotOrEnd(t, i + Len(lit)).some}

\* the interest declarations of a text: where each pattern of
\* _extract_interests matches, and the interest it yields
Declarations(text) ==
  LET t == Lower(text)
  IN  {[at |-> Min(LazyMatchAt(t, lit)),
        interest |-> Strip(LazyToDotOrEnd(t, Min(LazyMatchAt(t, lit)) + Len(lit)).v)] :
         lit \in {l \in {R_i_like, R_i_love, R_interested_in} : LazyMatchAt(t, l) # {}}}
      \cup
      {[at |-> i, interest |-> Strip(LazyBetweenAt(t, R_mujhe, R_pasand, i).v)] :
         i \in {k \in 1..Len(t) :
                  /\ LazyBetweenAt(t, R_mujhe, R_pasand, k).some
                  /\ \A h \in 1..(k - 1) : ~LazyBetweenAt(t, R_mujhe, R_pasand, h).some}}

\* where the text first declares the interest x
FirstDeclaredAt(text, x) == Min({d.at : d \in {e \in Declarations(text) : e.interest = x}})

\* the first place of x in the list _extract_interests returns, which
\* follows the order of its patterns
FirstExtractedAt(text, x) ==
  Min({i \in 1..Len(_extract_interests(text)) : _extract_interests(text)[i] = x})

\* the step is an extract_and_store_info of the command text
DeclaresInterests(text) ==
  /\ clock' # clock
  /\ store_log'[Len(store_log')].op = "extract_and_store_info"
  /\ store_log'[Len(store_log')].text = text

\* the step leaves the interests without duplicate and the stored ones in place
KeepsStoredInterests ==
  /\ NoDuplicate(memory'.interests)
  /\ Len(memory'.interests) >= Len(memory.interests)
  /\ SubSeq(memory'.interests, 1, Len(memory.interests)) = memory.interests

\* C22 (as claimed): the interests list never holds a duplicate, a stored
\* interest keeps its position, and the new interests of a command are
\* appended at the end in the order the command first declares them.
C22_DeclaredOrder_AsClaimed ==
  [][\A text \in InterestCommands : DeclaresInterests(text) =>
       /\ KeepsStoredInterests
       /\ \A i, j \in (Len(memory.interests) + 1)..Len(memory'.interests) :
            i < j => FirstDeclaredAt(text, memory'.interests[i])
                       < FirstDeclaredAt(text, memory'.interests[j])]_vars

\* C22: the interests list never holds a duplicate, a stored interest keeps
\* its position, and the new interests of a command are appended at the end,
\* each once, in the order of the patterns of _extract_interests that yield
\* them (i like, i love, mujhe .. pasand, interested in), which need not be
\* their order in the text; clear_memory empties the list.
C22_InterestsDedupedPatternOrder ==
  [][/\ \A text \in InterestCommands : DeclaresInterests(text) =>
          /\ KeepsStoredInterests
          /\ \A x \in Range(_extract_interests(text)) : x \in Range(memory'.interests)
          /\ \A i \in (Len(memory.interests) + 1)..Len(memory'.interests) :
               memory'.interests[i] \in Range(_extract_interests(text))
          /\ \A i, j \in (Len(memory.interests) + 1)..Len(memory'.interests) :
               i < j => FirstExtractedAt(text, memory'.interests[i])
                          < FirstExtractedAt(text, memory'.interests[j])
     /\ (clock' # clock /\ store_log'[Len(store_log')].op = "clear_memory") =>
          memory'.interests = <<>>]_vars

\* a command that declares tea twice was stored after chess: tea stands
\* once, after chess
C22_Witness ==
  /\ store_log # <<>>
  /\ LastOp.text = CmdTeaTwice
  /\ Len(LastOp.memory.interests) = 1
  /\ Len(memory.interests) = 2
  /\ memory.interests[1] = LastOp.memory.interests[1]
  /\ memory.interests[2] = <<"t", "e", "a">>

(* ------------------------------------------------------------------ *)
(* A server started on a profile file without interests list           *)
(* ------------------------------------------------------------------ *)

PartialInit == \E fs \in InitFiles : Constructed("Client", JsonFile(NoInterestsJson), fs)

SpecPartial == PartialInit /\ [][Next]_vars

\* the command has ended on an error path: the not-configured return, an
\* error response of the except branch, or an exception that left the call
ErrorPath ==
  /\ pc = "done"
  /\ \/ ret.kind = "raised"
     \/ ret.response \in {NotConfiguredResponse, QuotaResponse}
     \/ (ret.response # <<>> /\ ret.response[1].t = "Error: ")

====
